---- MODULE Spec2Model ----
(***************************************************************************)
(* A model of the stroke engine of handwrite: the geometry types Box and   *)
(* Rectangle, the type Curve with its incrementally maintained bounding    *)
(* box, the begin/continue/end stroke protocol and render of Canvas        *)
(* (src/src/canvas.rs), and the frame loop of main (src/src/main.rs).      *)
(*                                                                         *)
(* Coordinates are f32 in the source.  Box and Curve only compare          *)
(* coordinates and take component-wise minima and maxima, and Rectangle    *)
(* is exercised on inputs whose sums, products and quotients are whole     *)
(* numbers, so a coordinate is modelled as a small integer (finite, no     *)
(* NaN, no rounding).                                                      *)
(***************************************************************************)
EXTENDS Integers, Sequences, FiniteSets, TLC

\* ---- bounds -------------------------------------------------------------
MaxCoord == 1    \* coordinates range over 0..MaxCoord
MaxStored == 3   \* cap on the points a canvas holds, committed and in progress together
MaxFed == 2      \* cap on the points fed to a free-standing Box
MaxSide == 2     \* side vectors of a literal Rectangle have components in -MaxSide..MaxSide
MaxProbe == 4    \* points tested against a literal Rectangle have coordinates in -MaxProbe..MaxProbe
MaxVec == 4      \* the vector v of along_line_segment has components in -MaxVec..MaxVec
MaxWidth == 10   \* the width w of along_line_segment ranges over 1..MaxWidth
MaxQuery == 7    \* points tested against a Rectangle built along a segment: -MaxQuery..MaxQuery

\* ---- geometry -----------------------------------------------------------
Coord == 0..MaxCoord
Point == [x : Coord, y : Coord]

VecMin(a, b) ==
    [x |-> IF a.x < b.x THEN a.x ELSE b.x, y |-> IF a.y < b.y THEN a.y ELSE b.y]

VecMax(a, b) ==
    [x |-> IF a.x > b.x THEN a.x ELSE b.x, y |-> IF a.y > b.y THEN a.y ELSE b.y]

\* a variant that overwrites the upper corner instead of taking the maximum
expand_to_contain_Assigns(b, p) ==
    [p1 |-> VecMin(b.p1, p), p2 |-> p]

expand_to_contain(b, p) ==
    [p1 |-> VecMin(b.p1, p), p2 |-> VecMax(b.p2, p)]

\* a variant that excludes the upper boundary
Box_contains_Strict(b, p) ==
    /\ b.p1.x <= p.x
    /\ b.p1.y <= p.y
    /\ b.p2.x > p.x
    /\ b.p2.y > p.y

\* a variant that tests the upper corner's y against the point the other way round
Box_contains_SwappedY(b, p) ==
    /\ b.p1.x <= p.x
    /\ b.p1.y <= b.p2.y
    /\ b.p2.x >= p.x
    /\ b.p2.y <= p.y

Box_contains(b, p) ==
    /\ b.p1.x <= p.x
    /\ b.p1.y <= p.y
    /\ b.p2.x >= p.x
    /\ b.p2.y >= p.y

\* ---- Rectangle ----------------------------------------------------------
\* Vec2 arithmetic; products and sums of small integers are exact in f32
Abs(n) == IF n < 0 THEN -n ELSE n
dot(a, b) == a.x * b.x + a.y * b.y
sub(a, b) == [x |-> a.x - b.x, y |-> a.y - b.y]
perp(v) == [x |-> -v.y, y |-> v.x]
ZeroVec == [x |-> 0, y |-> 0]

\* a variant in which the second basis vector overwrites the verdict of the first
Rectangle_contains_LastBasisOnly(r, p) ==
    LET ap == sub(p, r.a)
        within(basis_vec) == 0 <= dot(ap, basis_vec) /\ dot(ap, basis_vec) <= dot(basis_vec, basis_vec)
    IN  within(r.ad)

\* a variant that excludes the lower boundary
Rectangle_contains_StrictLower(r, p) ==
    LET ap == sub(p, r.a)
        within(basis_vec) == 0 < dot(ap, basis_vec) /\ dot(ap, basis_vec) <= dot(basis_vec, basis_vec)
    IN  TRUE /\ within(r.ab) /\ within(r.ad)

\* contains starts true and is and-ed with the test of each of ab and ad
Rectangle_contains(r, p) ==
    LET ap == sub(p, r.a)
        within(basis_vec) == 0 <= dot(ap, basis_vec) /\ dot(ap, basis_vec) <= dot(basis_vec, basis_vec)
    IN  TRUE /\ within(r.ab) /\ within(r.ad)

\* the length of v where it is a whole number, searched below |v.x| + |v.y|
length(v) == CHOOSE r \in 0..(Abs(v.x) + Abs(v.y)) : r * r = dot(v, v)

\* the inputs on which normalizing, scaling by w and halving stay in whole
\* numbers, so that integer division computes what the f32 code computes
ExactInput(v, w) ==
    /\ \E r \in 0..(Abs(v.x) + Abs(v.y)) : r * r = dot(v, v)
    /\ v # ZeroVec =>
          /\ (perp(v).x * w) % (2 * length(v)) = 0
          /\ (perp(v).y * w) % (2 * length(v)) = 0

\* v.normalize_or_zero() * w: the zero vector for a v of length zero
normalize_or_zero_times(v, w) ==
    IF length(v) = 0 THEN ZeroVec
    ELSE [x |-> (v.x * w) \div length(v), y |-> (v.y * w) \div length(v)]

\* a variant that puts the corner at p instead of half a width beside it
along_line_segment_FromP(p, v, w) ==
    [a |-> p, ab |-> v, ad |-> normalize_or_zero_times(perp(v), w)]

along_line_segment(p, v, w) ==
    LET ab == v
        ad == normalize_or_zero_times(perp(v), w)
        a == [x |-> p.x - ad.x \div 2, y |-> p.y - ad.y \div 2]
    IN  [a |-> a, ab |-> ab, ad |-> ad]

\* ---- Curve --------------------------------------------------------------
\* a variant that starts the bounding box at the origin
Curve_new_ZeroBox(first_point) ==
    [points |-> <<first_point>>,
     bounding_box |-> [p1 |-> [x |-> 0, y |-> 0], p2 |-> [x |-> 0, y |-> 0]]]

Curve_new(first_point) ==
    [points |-> <<first_point>>,
     bounding_box |-> [p1 |-> first_point, p2 |-> first_point]]

\* a variant that puts the new point in front
add_point_Prepends(curve, p) ==
    [points |-> <<p>> \o curve.points,
     bounding_box |-> expand_to_contain(curve.bounding_box, p)]

add_point(curve, p) ==
    [points |-> Append(curve.points, p),
     bounding_box |-> expand_to_contain(curve.bounding_box, p)]

\* ---- state --------------------------------------------------------------
\* Canvas.curves: the committed curves, in insertion order
VARIABLE curves
\* Canvas.current_curve: <<>> is None, <<c>> is Some(c)
VARIABLE current_curve
\* the last call made on the Canvas and what it returned
VARIABLE call
\* history: "InProgress" from an Ok begin_stroke to the next Ok end_stroke
VARIABLE session
\* history: the points passed to the Ok calls of the latest stroke
VARIABLE inputs
\* a free-standing Box
VARIABLE box
\* history: the Box as it was constructed
VARIABLE box0
\* history: the points passed to expand_to_contain of box
VARIABLE fed
\* the last Box::contains query on box since it last grew: <<>> or <<[p, result]>>
VARIABLE hit
\* a free-standing Rectangle
VARIABLE rect
\* history: <<[p, v, w]>> when rect was built by along_line_segment, else <<>>
VARIABLE rectArgs
\* the last Rectangle::contains query on rect: <<>> or <<[p, result]>>
VARIABLE rhit
\* main.rs: the local canvas of main, a Canvas with the field curves only
VARIABLE main_canvas
\* main.rs: the local current_curve of main: <<>> is None, <<c>> is Some(c)
VARIABLE main_current_curve

vars == <<curves, current_curve, call, session, inputs, box, box0, fed, hit,
          rect, rectArgs, rhit, main_canvas, main_current_curve>>
mainVars == <<main_canvas, main_current_curve>>
canvasVars == <<curves, current_curve, call, session, inputs>>
boxVars == <<box, box0, fed, hit, rect, rectArgs, rhit>>
rectVars == <<rect, rectArgs, rhit>>

Ok == "Ok"
AlreadyExists == "Err(AlreadyExists)"
DoesntExist == "Err(DoesntExist)"

\* no Rectangle has been built or queried
RectIdle ==
    /\ rect = [a |-> ZeroVec, ab |-> ZeroVec, ad |-> ZeroVec]
    /\ rectArgs = <<>>
    /\ rhit = <<>>

\* main before its first frame: Canvas::default() and no curve being drawn
MainIdle ==
    /\ main_canvas = [curves |-> <<>>]
    /\ main_current_curve = <<>>

\* Canvas::default(): no committed curve, no stroke in progress
CanvasDefault ==
    /\ curves = <<>>
    /\ current_curve = <<>>
    /\ call = [op |-> "default", result |-> Ok]
    /\ session = "Idle"
    /\ inputs = <<>>

Init ==
    /\ CanvasDefault
    /\ box = [p1 |-> [x |-> 0, y |-> 0], p2 |-> [x |-> 0, y |-> 0]]
    /\ box0 = box
    /\ fed = <<>>
    /\ hit = <<>>
    /\ RectIdle
    /\ MainIdle

\* ---- Canvas operations --------------------------------------------------
\* the number of points held by a sequence of curves
RECURSIVE PointCount(_)
PointCount(cs) ==
    IF cs = <<>> THEN 0 ELSE Len(cs[1].points) + PointCount(Tail(cs))

\* the points the Canvas holds; begin_stroke and continue_stroke add one
Stored == PointCount(curves) + PointCount(current_curve)

\* a variant that reports the error but restarts the stroke all the same
begin_stroke_Restarts(first_point) ==
    /\ Stored < MaxStored
    /\ current_curve' = <<Curve_new(first_point)>>
    /\ IF current_curve # <<>>
       THEN /\ call' = [op |-> "begin_stroke", result |-> AlreadyExists]
            /\ UNCHANGED <<session, inputs>>
       ELSE /\ call' = [op |-> "begin_stroke", result |-> Ok]
            /\ session' = "InProgress"
            /\ inputs' = <<first_point>>
    /\ UNCHANGED curves
    /\ UNCHANGED boxVars

begin_stroke(first_point) ==
    /\ IF current_curve # <<>>
       THEN /\ call' = [op |-> "begin_stroke", result |-> AlreadyExists]
            /\ UNCHANGED <<curves, current_curve, session, inputs>>
       ELSE /\ Stored < MaxStored
            /\ current_curve' = <<Curve_new(first_point)>>
            /\ call' = [op |-> "begin_stroke", result |-> Ok]
            /\ session' = "InProgress"
            /\ inputs' = <<first_point>>
            /\ UNCHANGED curves
    /\ UNCHANGED boxVars

\* a variant that also grows the last committed curve
continue_stroke_TouchesLastCommitted(p) ==
    /\ IF current_curve # <<>>
       THEN /\ Stored < MaxStored
            /\ current_curve' = <<add_point(current_curve[1], p)>>
            /\ curves' = IF curves = <<>> THEN curves
                         ELSE [curves EXCEPT ![Len(curves)] = add_point(@, p)]
            /\ call' = [op |-> "continue_stroke", result |-> Ok]
            /\ inputs' = Append(inputs, p)
            /\ UNCHANGED session
       ELSE /\ call' = [op |-> "continue_stroke", result |-> DoesntExist]
            /\ UNCHANGED <<curves, current_curve, session, inputs>>
    /\ UNCHANGED boxVars

\* a variant that starts a stroke when none is in progress, as the frame loop does
continue_stroke_StartsWhenIdle(p) ==
    /\ IF current_curve # <<>>
       THEN /\ Stored < MaxStored
            /\ current_curve' = <<add_point(current_curve[1], p)>>
            /\ call' = [op |-> "continue_stroke", result |-> Ok]
            /\ inputs' = Append(inputs, p)
            /\ UNCHANGED <<curves, session>>
       ELSE /\ Stored < MaxStored
            /\ current_curve' = <<Curve_new(p)>>
            /\ call' = [op |-> "continue_stroke", result |-> DoesntExist]
            /\ UNCHANGED <<curves, session, inputs>>
    /\ UNCHANGED boxVars

continue_stroke(p) ==
    /\ IF current_curve # <<>>
       THEN /\ Stored < MaxStored
            /\ current_curve' = <<add_point(current_curve[1], p)>>
            /\ call' = [op |-> "continue_stroke", result |-> Ok]
            /\ inputs' = Append(inputs, p)
            /\ UNCHANGED <<curves, session>>
       ELSE /\ call' = [op |-> "continue_stroke", result |-> DoesntExist]
            /\ UNCHANGED <<curves, current_curve, session, inputs>>
    /\ UNCHANGED boxVars

\* a variant that drops a one-point curve instead of committing it
end_stroke_DiscardsSinglePoint ==
    /\ IF current_curve # <<>>
       THEN /\ current_curve' = <<>>
            /\ curves' = IF Len(current_curve[1].points) > 1
                         THEN Append(curves, current_curve[1])
                         ELSE curves
            /\ call' = [op |-> "end_stroke", result |-> Ok]
            /\ session' = "Idle"
            /\ UNCHANGED inputs
       ELSE /\ call' = [op |-> "end_stroke", result |-> DoesntExist]
            /\ UNCHANGED <<curves, current_curve, session, inputs>>
    /\ UNCHANGED boxVars

end_stroke ==
    /\ IF current_curve # <<>>
       THEN /\ current_curve' = <<>>
            /\ curves' = Append(curves, current_curve[1])
            /\ call' = [op |-> "end_stroke", result |-> Ok]
            /\ session' = "Idle"
            /\ UNCHANGED inputs
       ELSE /\ call' = [op |-> "end_stroke", result |-> DoesntExist]
            /\ UNCHANGED <<curves, current_curve, session, inputs>>
    /\ UNCHANGED boxVars

\* a variant that tests is_none instead of is_some
is_stroke_in_progress_IsNone ==
    /\ call' = [op |-> "is_stroke_in_progress", result |-> (current_curve = <<>>)]
    /\ UNCHANGED <<curves, current_curve, session, inputs>>
    /\ UNCHANGED boxVars

is_stroke_in_progress ==
    /\ call' = [op |-> "is_stroke_in_progress", result |-> (current_curve # <<>>)]
    /\ UNCHANGED <<curves, current_curve, session, inputs>>
    /\ UNCHANGED boxVars

\* what render_curve hands to the drawing backend for one curve: a draw_line
\* per window of two consecutive points, then the outline of the bounding box
render_curve(curve) ==
    [lines |-> [j \in 1..(Len(curve.points) - 1) |->
                   <<curve.points[j], curve.points[j + 1]>>],
     rect |-> [x |-> curve.bounding_box.p1.x,
               y |-> curve.bounding_box.p1.y,
               w |-> curve.bounding_box.p2.x - curve.bounding_box.p1.x,
               h |-> curve.bounding_box.p2.y - curve.bounding_box.p1.y]]

\* a variant that leaves out the stroke in progress, as Canvas::render of main.rs does
render_SkipsCurrent ==
    /\ call' = [op |-> "render",
                result |-> [drawn |-> [i \in 1..Len(curves) |-> render_curve(curves[i])],
                            repeated |-> (call.op = "render")]]
    /\ UNCHANGED <<curves, current_curve, session, inputs>>
    /\ UNCHANGED boxVars

\* the result of the call is the sequence of render_curve outputs, in the order
\* drawn; repeated tells that the call before this one was a render too
render ==
    /\ call' = [op |-> "render",
                result |-> [drawn |-> [i \in 1..Len(curves) |-> render_curve(curves[i])]
                                      \o [i \in 1..Len(current_curve) |->
                                              render_curve(current_curve[i])],
                            repeated |-> (call.op = "render")]]
    /\ UNCHANGED <<curves, current_curve, session, inputs>>
    /\ UNCHANGED boxVars

\* a caller of the Canvas of canvas.rs; the frame loop of main.rs is not running
Next ==
    \/ \E first_point \in Point : begin_stroke(first_point) /\ UNCHANGED mainVars
    \/ \E p \in Point : continue_stroke(p) /\ UNCHANGED mainVars
    \/ end_stroke /\ UNCHANGED mainVars
    \/ is_stroke_in_progress /\ UNCHANGED mainVars
    \/ render /\ UNCHANGED mainVars

Spec == Init /\ [][Next]_vars

\* ---- the frame loop of main.rs, with the Canvas of canvas.rs driven beside it
CurveInProgress_start(first_point) == [curve |-> Curve_new(first_point)]
CurveInProgress_add_point(cip, p) == [curve |-> add_point(cip.curve, p)]
CurveInProgress_finish(cip) == cip.curve
add_curve(canvas, curve) == [curves |-> Append(canvas.curves, curve)]

\* the points main holds: those of its canvas and of the curve being drawn
MainStored ==
    PointCount(main_canvas.curves)
    + PointCount([i \in 1..Len(main_current_curve) |-> main_current_curve[i].curve])

\* a variant that commits a finished curve only if it has more than one point
main_frame_DropsSinglePoint(down, released, mouse_pos) ==
    IF down
    THEN /\ MainStored < MaxStored
         /\ IF main_current_curve # <<>>
            THEN main_current_curve' =
                    <<CurveInProgress_add_point(main_current_curve[1], mouse_pos)>>
            ELSE main_current_curve' = <<CurveInProgress_start(mouse_pos)>>
         /\ UNCHANGED main_canvas
    ELSE IF released /\ main_current_curve # <<>>
    THEN /\ main_current_curve' = <<>>
         /\ main_canvas' =
               IF Len(CurveInProgress_finish(main_current_curve[1]).points) > 1
               THEN add_curve(main_canvas, CurveInProgress_finish(main_current_curve[1]))
               ELSE main_canvas
    ELSE UNCHANGED mainVars

\* one pass of the loop of main: down and released are what
\* is_mouse_button_down and is_mouse_button_released report for the left button
main_frame(down, released, mouse_pos) ==
    IF down
    THEN /\ MainStored < MaxStored
         /\ IF main_current_curve # <<>>
            THEN main_current_curve' =
                    <<CurveInProgress_add_point(main_current_curve[1], mouse_pos)>>
            ELSE main_current_curve' = <<CurveInProgress_start(mouse_pos)>>
         /\ UNCHANGED main_canvas
    ELSE IF released /\ main_current_curve # <<>>
    THEN /\ main_current_curve' = <<>>
         /\ main_canvas' =
               add_curve(main_canvas, CurveInProgress_finish(main_current_curve[1]))
    ELSE UNCHANGED mainVars

\* the call on the Canvas of canvas.rs that corresponds to the frame
protocol_call(down, released, mouse_pos) ==
    IF down
    THEN IF main_current_curve # <<>>
         THEN continue_stroke(mouse_pos)
         ELSE begin_stroke(mouse_pos)
    ELSE IF released /\ main_current_curve # <<>>
    THEN end_stroke
    ELSE UNCHANGED <<canvasVars, boxVars>>

Frame(down, released, mouse_pos) ==
    /\ main_frame(down, released, mouse_pos)
    /\ protocol_call(down, released, mouse_pos)

NextLoop ==
    \E down \in BOOLEAN, released \in BOOLEAN, mouse_pos \in Point :
       Frame(down, released, mouse_pos)

SpecLoop == Init /\ [][NextLoop]_vars

\* ---- a free-standing Box fed a sequence of points -------------------------
InitBox ==
    /\ CanvasDefault
    /\ box \in {b \in [p1 : Point, p2 : Point] : b.p1.x <= b.p2.x /\ b.p1.y <= b.p2.y}
    /\ box0 = box
    /\ fed = <<>>
    /\ hit = <<>>
    /\ RectIdle
    /\ MainIdle

BoxExpand(p) ==
    /\ Len(fed) < MaxFed
    /\ box' = expand_to_contain(box, p)
    /\ fed' = Append(fed, p)
    /\ hit' = <<>>
    /\ UNCHANGED <<box0, canvasVars, rectVars, mainVars>>

BoxContains(p) ==
    /\ hit' = <<[p |-> p, result |-> Box_contains(box, p)]>>
    /\ UNCHANGED <<box, box0, fed, canvasVars, rectVars, mainVars>>

NextBox ==
    \/ \E p \in Point : BoxExpand(p)
    \/ \E p \in Point : BoxContains(p)

SpecBox == InitBox /\ [][NextBox]_vars

\* ---- a literal Rectangle queried for points --------------------------------
SideVec == [x : (-MaxSide)..MaxSide, y : (-MaxSide)..MaxSide]
ProbePoint == [x : (-MaxProbe)..MaxProbe, y : (-MaxProbe)..MaxProbe]

InitRect ==
    /\ CanvasDefault
    /\ box = [p1 |-> ZeroVec, p2 |-> ZeroVec]
    /\ box0 = box
    /\ fed = <<>>
    /\ hit = <<>>
    /\ rect \in [a : {ZeroVec, [x |-> 1, y |-> -1]}, ab : SideVec, ad : SideVec]
    /\ rectArgs = <<>>
    /\ rhit = <<>>
    /\ MainIdle

\* one query per Rectangle drawn: contains reads the Rectangle and changes nothing
RectContains(p) ==
    /\ rhit = <<>>
    /\ rhit' = <<[p |-> p, result |-> Rectangle_contains(rect, p)]>>
    /\ UNCHANGED <<rect, rectArgs, box, box0, fed, hit, canvasVars, mainVars>>

NextRect == \E p \in ProbePoint : RectContains(p)

SpecRect == InitRect /\ [][NextRect]_vars

\* ---- Rectangles built along a segment and queried for points ---------------
AlongVec == [x : (-MaxVec)..MaxVec, y : (-MaxVec)..MaxVec]
AlongPoint == {ZeroVec, [x |-> 1, y |-> -1]}
QueryPoint == [x : (-MaxQuery)..MaxQuery, y : (-MaxQuery)..MaxQuery]

\* one Rectangle is built, then one point is tested against it
AlongLineSegment(p, v, w) ==
    /\ rectArgs = <<>>
    /\ ExactInput(v, w)
    /\ rect' = along_line_segment(p, v, w)
    /\ rectArgs' = <<[p |-> p, v |-> v, w |-> w]>>
    /\ rhit' = <<>>
    /\ UNCHANGED <<box, box0, fed, hit, canvasVars, mainVars>>

AlongContains(p) ==
    /\ rectArgs # <<>>
    /\ rhit = <<>>
    /\ rhit' = <<[p |-> p, result |-> Rectangle_contains(rect, p)]>>
    /\ UNCHANGED <<rect, rectArgs, box, box0, fed, hit, canvasVars, mainVars>>

NextAlong ==
    \/ \E p \in AlongPoint, v \in AlongVec, w \in 1..MaxWidth : AlongLineSegment(p, v, w)
    \/ \E p \in QueryPoint : AlongContains(p)

SpecAlong == Init /\ [][NextAlong]_vars

\* ---- helpers of the properties -------------------------------------------
Committed == {curves[i] : i \in 1..Len(curves)}
AllCurves == Committed \cup {current_curve[i] : i \in 1..Len(current_curve)}
InProgress == current_curve # <<>>

MinOf(S) == CHOOSE m \in S : \A s \in S : m <= s
MaxOf(S) == CHOOSE m \in S : \A s \in S : m >= s
XsOf(points) == {points[i].x : i \in 1..Len(points)}
YsOf(points) == {points[i].y : i \in 1..Len(points)}
\* the minimal axis-aligned box of a non-empty point sequence, from scratch
MinimalBox(points) ==
    [p1 |-> [x |-> MinOf(XsOf(points)), y |-> MinOf(YsOf(points))],
     p2 |-> [x |-> MaxOf(XsOf(points)), y |-> MaxOf(YsOf(points))]]

C2_BeginWhileInProgressFails ==
    [][(call'.op = "begin_stroke" /\ InProgress) =>
         /\ call'.result = AlreadyExists
         /\ current_curve' = current_curve
         /\ curves' = curves]_vars

\* begin_stroke has just failed on a stroke that had accumulated two points
C2_Witness ==
    /\ call = [op |-> "begin_stroke", result |-> AlreadyExists]
    /\ InProgress
    /\ Len(current_curve[1].points) >= 2
    /\ current_curve[1].points = inputs

\* ---- C3 -----------------------------------------------------------------
\* C3: continue_stroke and end_stroke called while no stroke is in progress
\* return the not-in-progress error (DoesntExist in the source) and leave the
\* committed collection and the Idle state unchanged.
C3_ContinueEndWhileIdleFail ==
    [][(call'.op \in {"continue_stroke", "end_stroke"} /\ ~InProgress) =>
         /\ call'.result = DoesntExist
         /\ current_curve' = <<>>
         /\ curves' = curves]_vars

\* continue_stroke has just failed on a canvas that holds a committed curve
C3_Witness ==
    /\ call = [op |-> "continue_stroke", result |-> DoesntExist]
    /\ ~InProgress
    /\ curves # <<>>

\* ---- C4 -----------------------------------------------------------------
\* C4: after begin_stroke(p0), continue_stroke(p1), ..., continue_stroke(pn),
\* end_stroke() with n >= 1 the committed collection is the one before with
\* exactly one Curve appended as its last element, whose points are
\* p0, p1, ..., pn in that order.
C4_StrokeCommitsInputsInOrder ==
    [][(call'.op = "end_stroke" /\ call'.result = Ok /\ Len(inputs) >= 2) =>
         /\ Len(curves') = Len(curves) + 1
         /\ SubSeq(curves', 1, Len(curves)) = curves
         /\ curves'[Len(curves')].points = inputs]_vars

\* a stroke of two distinct points has been committed after a different curve
C4_Witness ==
    /\ call = [op |-> "end_stroke", result |-> Ok]
    /\ Len(curves) = 2
    /\ curves[1] # curves[2]
    /\ Len(inputs) = 2
    /\ inputs[1] # inputs[2]
    /\ curves[2].points = inputs

\* ---- C5 -----------------------------------------------------------------
\* C5: is_stroke_in_progress returns true if and only if the most recent
\* successful begin_stroke has not been followed by a successful end_stroke,
\* which is the case exactly when current_curve is present; the call changes
\* no state.
C5_IsStrokeInProgress ==
    /\ [](call.op = "is_stroke_in_progress" => call.result = (session = "InProgress"))
    /\ [](session = "InProgress" <=> current_curve # <<>>)
    /\ [][call'.op = "is_stroke_in_progress" =>
            (current_curve' = current_curve /\ curves' = curves)]_vars

\* the query has answered true during a stroke begun after an earlier commit
C5_Witness ==
    /\ call = [op |-> "is_stroke_in_progress", result |-> TRUE]
    /\ session = "InProgress"
    /\ curves # <<>>

\* ---- C9 -----------------------------------------------------------------
\* C9: in every reachable state the bounding box of every Curve, in progress
\* or committed, is the minimal axis-aligned box of its points.
C9_BoundingBoxMinimal ==
    \A c \in AllCurves : c.bounding_box = MinimalBox(c.points)

\* a committed curve whose box corners are none of its points, beside a stroke in progress
C9_Witness ==
    /\ \E c \in Committed :
          /\ c.bounding_box.p1 \notin {c.points[i] : i \in 1..Len(c.points)}
          /\ c.bounding_box.p2 \notin {c.points[i] : i \in 1..Len(c.points)}
    /\ InProgress

\* ---- C10 ----------------------------------------------------------------
\* C10: a Box that starts with p1 <= p2 on both axes keeps p1 <= p2 after any
\* sequence of expand_to_contain calls, contains every point of the sequence,
\* and contains after each call every point it contained before it.
C10_BoxMonotone ==
    /\ [](box.p1.x <= box.p2.x /\ box.p1.y <= box.p2.y)
    /\ [](\A i \in 1..Len(fed) : Box_contains(box, fed[i]))
    /\ [][\A q \in Point : Box_contains(box, q) => Box_contains(box', q)]_vars

\* a Box has grown on both corners under a sequence of points outside it
C10_Witness ==
    /\ Len(fed) >= 2
    /\ box.p1 # box0.p1
    /\ box.p2 # box0.p2
    /\ \E i \in 1..Len(fed) : ~Box_contains(box0, fed[i])

\* ---- C11 ----------------------------------------------------------------
\* C11: Box::contains is boundary-inclusive on both axes: it answers true for
\* every point between the corners on both axes, the two corners and the
\* single point of a zero-area box included, and false for every point that
\* lies outside that range on either axis.
C11_BoxContainsBoundaryInclusive ==
    /\ \A i \in 1..Len(hit) :
          /\ (/\ box.p1.x <= hit[i].p.x /\ hit[i].p.x <= box.p2.x
              /\ box.p1.y <= hit[i].p.y /\ hit[i].p.y <= box.p2.y) => hit[i].result = TRUE
          /\ (\/ hit[i].p.x < box.p1.x \/ hit[i].p.x > box.p2.x
              \/ hit[i].p.y < box.p1.y \/ hit[i].p.y > box.p2.y) => hit[i].result = FALSE
          /\ hit[i].p \in {box.p1, box.p2} => hit[i].result = TRUE

\* the upper corner of a box of positive area has been found inside it
C11_Witness ==
    /\ hit # <<>>
    /\ hit[1].p = box.p2
    /\ box.p1.x < box.p2.x
    /\ box.p1.y < box.p2.y
    /\ hit[1].result = TRUE

\* ---- C15 ----------------------------------------------------------------
\* C15 (as stated): Box::contains(p) returns true if and only if
\* p1.x <= p.x <= p2.x and p1.y <= p2.y <= p.y.
C15_Original ==
    \A i \in 1..Len(hit) :
       hit[i].result <=> (/\ box.p1.x <= hit[i].p.x /\ hit[i].p.x <= box.p2.x
                          /\ box.p1.y <= box.p2.y /\ box.p2.y <= hit[i].p.y)

\* C15 (amended): Box::contains(p) returns true if and only if
\* p1.x <= p.x <= p2.x and p1.y <= p.y <= p2.y.
C15_BoxContainsIff ==
    \A i \in 1..Len(hit) :
       hit[i].result <=> (/\ box.p1.x <= hit[i].p.x /\ hit[i].p.x <= box.p2.x
                          /\ box.p1.y <= hit[i].p.y /\ hit[i].p.y <= box.p2.y)

\* a point below the upper corner on the y axis has been found inside the box
C15_Witness ==
    /\ hit # <<>>
    /\ hit[1].result = TRUE
    /\ hit[1].p.y < box.p2.y
    /\ fed # <<>>

\* ---- C12 ----------------------------------------------------------------
\* C12: render changes no Canvas state and presents the committed Curves in
\* insertion order followed by the in-progress Curve if there is one, each as
\* its ordered point sequence (one line per pair of consecutive points, and
\* the outline of its bounding box); a render that directly follows a render
\* presents the same sequence.
C12_RenderPresentsAllInOrder ==
    [][call'.op = "render" =>
         LET all == curves \o current_curve
             shown == call'.result.drawn
         IN  /\ curves' = curves
             /\ current_curve' = current_curve
             /\ Len(shown) = Len(curves) + Len(current_curve)
             /\ \A i \in 1..Len(all) :
                   /\ Len(shown[i].lines) = Len(all[i].points) - 1
                   /\ \A j \in 1..Len(shown[i].lines) :
                         /\ shown[i].lines[j][1] = all[i].points[j]
                         /\ shown[i].lines[j][2] = all[i].points[j + 1]
                   /\ shown[i].rect.x = all[i].bounding_box.p1.x
                   /\ shown[i].rect.y = all[i].bounding_box.p1.y
                   /\ shown[i].rect.x + shown[i].rect.w = all[i].bounding_box.p2.x
                   /\ shown[i].rect.y + shown[i].rect.h = all[i].bounding_box.p2.y
             /\ call.op = "render" => shown = call.result.drawn]_vars

\* a second render in a row has presented a committed curve and a two-point stroke in progress
C12_Witness ==
    /\ call.op = "render"
    /\ call.result.repeated
    /\ curves # <<>>
    /\ InProgress
    /\ Len(current_curve[1].points) = 2
    /\ Len(call.result.drawn) = Len(curves) + 1
    /\ Len(call.result.drawn[Len(curves) + 1].lines) = 1

\* ---- C16 ----------------------------------------------------------------
\* C16: once a Curve is in the committed collection its points and bounding
\* box never change: no begin_stroke, continue_stroke, end_stroke or render
\* call, successful or failing, alters an already committed Curve.
C16_CommittedCurvesFrozen ==
    [][\A i \in 1..Len(curves) :
          /\ i <= Len(curves')
          /\ curves'[i].points = curves[i].points
          /\ curves'[i].bounding_box = curves[i].bounding_box]_vars

\* a stroke has been continued with a new point while a curve was already committed
C16_Witness ==
    /\ call = [op |-> "continue_stroke", result |-> Ok]
    /\ curves # <<>>
    /\ InProgress
    /\ current_curve[1].points[2] \notin {curves[1].points[i] : i \in 1..Len(curves[1].points)}

\* ---- C13 ----------------------------------------------------------------
\* p = a + s*ab + t*ad for some s and t in [0, 1]; s and t are fractions over
\* the determinant of ab and ad, so they are searched as sn/d and tn/d
InSpan(r, p) ==
    LET d == Abs(r.ab.x * r.ad.y - r.ab.y * r.ad.x)
    IN  \E sn \in 0..d, tn \in 0..d :
           /\ d * (p.x - r.a.x) = sn * r.ab.x + tn * r.ad.x
           /\ d * (p.y - r.a.y) = sn * r.ab.y + tn * r.ad.y

\* C13: for a Rectangle whose side vectors ab and ad are orthogonal and
\* non-zero, contains(p) is true if and only if p = a + s*ab + t*ad for some
\* s and t both in [0, 1], boundary included.
C13_RectangleContainsIffInSpan ==
    \A i \in 1..Len(rhit) :
       (/\ dot(rect.ab, rect.ad) = 0
        /\ rect.ab # ZeroVec
        /\ rect.ad # ZeroVec) => (rhit[i].result <=> InSpan(rect, rhit[i].p))

\* a point on the far edge of a tilted Rectangle has been found inside it
C13_Witness ==
    /\ rhit # <<>>
    /\ rectArgs = <<>>
    /\ dot(rect.ab, rect.ad) = 0
    /\ rect.ab.x # 0 /\ rect.ab.y # 0
    /\ rect.ad # ZeroVec
    /\ rhit[1].result = TRUE
    /\ dot(sub(rhit[1].p, rect.a), rect.ab) = dot(rect.ab, rect.ab)
    /\ dot(sub(rhit[1].p, rect.a), rect.ad) > 0

\* ---- C14 ----------------------------------------------------------------
\* twice the area spanned by v and d: |v| times the distance of d from the line of v
cross(v, d) == v.x * d.y - v.y * d.x

\* C14: for a non-zero v and w > 0 the Rectangle of along_line_segment(p, v, w)
\* contains q exactly when the coordinate of q along v lies in [0, |v|] and the
\* distance of q from the line through p and p + v is at most w / 2; in tenths,
\* for p = (0,0), v = (10,0), w = 4 it contains (5,0), (5,1.9), (5,-1.9) and
\* neither (5,2.1) nor (-0.1,0).
C14_AlongLineSegmentStraddles ==
    /\ \A i \in 1..Len(rectArgs), j \in 1..Len(rhit) :
          LET p == rectArgs[i].p
              v == rectArgs[i].v
              w == rectArgs[i].w
              d == sub(rhit[j].p, p)
          IN  v # ZeroVec =>
                (rhit[j].result <=>
                    /\ 0 <= dot(d, v)
                    /\ dot(d, v) <= dot(v, v)
                    /\ 4 * cross(v, d) * cross(v, d) <= w * w * dot(v, v))
    /\ LET r == along_line_segment(ZeroVec, [x |-> 100, y |-> 0], 40)
       IN  /\ Rectangle_contains(r, [x |-> 50, y |-> 0])
           /\ Rectangle_contains(r, [x |-> 50, y |-> 19])
           /\ Rectangle_contains(r, [x |-> 50, y |-> -19])
           /\ ~Rectangle_contains(r, [x |-> 50, y |-> 21])
           /\ ~Rectangle_contains(r, [x |-> -1, y |-> 0])

\* a point half a width beside a slanted segment has been found inside its Rectangle
C14_Witness ==
    /\ rectArgs # <<>>
    /\ rhit # <<>>
    /\ rectArgs[1].v.x # 0 /\ rectArgs[1].v.y # 0
    /\ rhit[1].result = TRUE
    /\ 4 * cross(rectArgs[1].v, sub(rhit[1].p, rectArgs[1].p))
         * cross(rectArgs[1].v, sub(rhit[1].p, rectArgs[1].p))
       = rectArgs[1].w * rectArgs[1].w * dot(rectArgs[1].v, rectArgs[1].v)

\* ---- C18 ----------------------------------------------------------------
\* C18: along_line_segment(p, v, w) with v the zero vector returns the
\* Rectangle a = p, ab = (0,0), ad = (0,0), and Rectangle::contains of it is
\* true for every point q, not only for q = p.
C18_ZeroVectorRectangleContainsAll ==
    \A i \in 1..Len(rectArgs) :
       rectArgs[i].v = ZeroVec =>
          /\ rect = [a |-> rectArgs[i].p, ab |-> ZeroVec, ad |-> ZeroVec]
          /\ \A j \in 1..Len(rhit) : rhit[j].result = TRUE

\* a point away from p has been found inside the Rectangle of a zero vector
C18_Witness ==
    /\ rectArgs # <<>>
    /\ rectArgs[1].v = ZeroVec
    /\ rhit # <<>>
    /\ rhit[1].p # rectArgs[1].p
    /\ rhit[1].p.x = MaxQuery
    /\ rhit[1].result = TRUE

\* ---- C17 ----------------------------------------------------------------
\* C17: for every sequence of frames the loop of main.rs and the Canvas of
\* canvas.rs, called with begin_stroke on a down frame with no curve in
\* progress, continue_stroke on a down frame with a curve in progress and
\* end_stroke on a released frame with a curve in progress, hold the same
\* committed curves and the same in-progress curve, and no call returns an error.
C17_FrameLoopMatchesProtocol ==
    /\ main_canvas.curves = curves
    /\ Len(main_current_curve) = Len(current_curve)
    /\ \A i \in 1..Len(main_current_curve) : main_current_curve[i].curve = current_curve[i]
    /\ call.result = Ok

\* after a first committed curve, a released frame has committed a two-point curve on both sides
C17_Witness ==
    /\ call = [op |-> "end_stroke", result |-> Ok]
    /\ Len(main_canvas.curves) = 2
    /\ Len(main_canvas.curves[2].points) = 2
    /\ Len(main_canvas.curves[1].points) = 1
    /\ main_current_curve = <<>>
    /\ curves = main_canvas.curves

====
